---------------------------- MODULE Spec2Model ----------------------------
(***************************************************************************)
(* The chat widget client script static/js/chat.js: the form submit        *)
(* handler, the server-sent-event reader handleStreamedResponse, the       *)
(* typewriter reveal typewriterEffect and the status poller, in the two    *)
(* variants the file holds (direct rendering, lines 1-181; typewriter      *)
(* rendering, lines 182-372).                                              *)
(*                                                                         *)
(* Text is a sequence of characters (one-character strings).  A response   *)
(* body is a sequence of bytes: an ASCII byte is written as its character, *)
(* and the two bytes of the UTF-8 encoding of U+00E9 are "C3" and "A9".    *)
(***************************************************************************)
EXTENDS Naturals, Sequences, FiniteSets

(***************************************************************************)
(* Strings                                                                 *)
(***************************************************************************)
NL == "\n"

\* The record separator of buffer.split('\n\n').
SEP == <<NL, NL>>

\* The tag of part.startsWith('data:').
TAG == <<"d", "a", "t", "a", ":">>

Min(S) == CHOOSE m \in S : \A n \in S : m <= n

\* A recursive operator binds its arguments as values (x \in {x0}) before it
\* uses them, so that TLC evaluates each argument once.

RECURSIVE Concat(_)
\* The concatenation of a sequence of texts.
Concat(ss0) ==
    CHOOSE result \in {
        IF Len(ss) = 0 THEN <<>>
        ELSE IF Len(ss) = 1 THEN ss[1]
        ELSE LET h == Len(ss) \div 2
             IN  Concat(SubSeq(ss, 1, h)) \o Concat(SubSeq(ss, h + 1, Len(ss)))
        : ss \in {ss0}} : TRUE

\* The first position >= from at which sep occurs in s, 0 when there is none.
IndexOf(s, sep, from) ==
    LET P == {p \in from..(Len(s) + 1 - Len(sep)) : SubSeq(s, p, p + Len(sep) - 1) = sep}
    IN  IF P = {} THEN 0 ELSE Min(P)

\* The first position >= from of a character of set C, 0 when there is none.
IndexIn(s, C, from) ==
    LET P == {p \in from..Len(s) : s[p] \in C}
    IN  IF P = {} THEN 0 ELSE Min(P)

RECURSIVE split(_, _)
\* String.prototype.split with a string separator: n matches give n+1 pieces.
split(s0, sep0) ==
    CHOOSE result \in {
        LET p == IndexOf(s, sep, 1)
        IN  IF p = 0 THEN <<s>>
            ELSE <<SubSeq(s, 1, p - 1)>> \o split(SubSeq(s, p + Len(sep), Len(s)), sep)
        : s \in {s0}, sep \in {sep0}} : TRUE

startsWith(s, pre) == Len(s) >= Len(pre) /\ SubSeq(s, 1, Len(pre)) = pre

substring(s, n) == SubSeq(s, n + 1, Len(s))

\* The white space of String.prototype.trim and of JSON among the model's
\* characters.
WhiteSpace == {" ", NL}

\* String.prototype.trim
trim(s) ==
    LET P == {p \in 1..Len(s) : s[p] \notin WhiteSpace}
    IN  IF P = {} THEN <<>>
        ELSE SubSeq(s, Min(P), CHOOSE m \in P : \A n \in P : n <= m)

(***************************************************************************)
(* TextDecoder: decode(value, {stream: true}) of UTF-8.  The decoder keeps *)
(* the lead byte of a character whose continuation byte has not arrived;   *)
(* after any byte it holds that byte when it is a lead byte and nothing    *)
(* otherwise, so what a byte decodes to depends on the byte before it.     *)
(***************************************************************************)
LeadByte == "C3"
ContByte == "A9"
EAcute == "U+00E9"
Replacement == "U+FFFD"

\* A byte arriving when no lead byte is held.
DecodeFresh(b) ==
    IF b = LeadByte THEN <<>>
    ELSE IF b = ContByte THEN <<Replacement>>
    ELSE <<b>>

\* A byte arriving: a held lead byte is completed by a continuation byte and
\* replaced by U+FFFD before anything else.
DecodeByte(held, b) ==
    IF ~held THEN DecodeFresh(b)
    ELSE IF b = ContByte THEN <<EAcute>>
    ELSE <<Replacement>> \o DecodeFresh(b)

\* pend: the held lead byte, <<>> when none.
decode(pend, bytes) ==
    [text |-> Concat([j \in 1..Len(bytes) |->
                 DecodeByte(IF j = 1 THEN pend # <<>> ELSE bytes[j - 1] = LeadByte,
                            bytes[j])]),
     pend |-> IF bytes = <<>> THEN pend
              ELSE IF bytes[Len(bytes)] = LeadByte THEN <<LeadByte>>
              ELSE <<>>]

(***************************************************************************)
(* JSON.parse, on the values the endpoints send: objects, strings and the  *)
(* literals null, true and false.  A JavaScript value is a record with a   *)
(* kind k.                                                                 *)
(***************************************************************************)
Undefined == [k |-> "undefined"]
JNull == [k |-> "null"]
JStr(s) == [k |-> "string", s |-> s]
JBool(b) == [k |-> "boolean", b |-> b]
JObj(m) == [k |-> "object", m |-> m]
\* The outcome of an evaluation that throws.
Thrown == [k |-> "throw"]

JFail == [ok |-> FALSE]
JOk(v, i) == [ok |-> TRUE, v |-> v, i |-> i]

\* The first position >= i that holds no white space.
SkipWs(s, i) ==
    LET P == {p \in i..Len(s) : s[p] \notin WhiteSpace}
    IN  IF P = {} THEN Len(s) + 1 ELSE Min(P)

\* A string whose opening quote is at i: it ends at the next quote, and a
\* line break or a backslash before that is a syntax error (the replies
\* hold no escapes).
JString(s, i) ==
    LET e == IndexIn(s, {"\"", NL, "\\"}, i + 1)
    IN  IF e = 0 \/ s[e] # "\"" THEN JFail
        ELSE JOk(JStr(SubSeq(s, i + 1, e - 1)), e + 1)

JLiteral(s, i, word, v) ==
    IF startsWith(SubSeq(s, i, Len(s)), word) THEN JOk(v, i + Len(word)) ELSE JFail

RECURSIVE JValue(_, _)
RECURSIVE JMembers(_, _, _)
JValue(s0, i0) ==
    CHOOSE result \in {
        LET j == SkipWs(s, i)
        IN  IF j > Len(s) THEN JFail
            ELSE IF s[j] = "\"" THEN JString(s, j)
            ELSE IF s[j] = "{"
                 THEN LET c == SkipWs(s, j + 1)
                      IN  IF c <= Len(s) /\ s[c] = "}" THEN JOk(JObj(<<>>), c + 1)
                          ELSE JMembers(s, j + 1, <<>>)
            ELSE IF s[j] = "n" THEN JLiteral(s, j, <<"n", "u", "l", "l">>, JNull)
            ELSE IF s[j] = "t" THEN JLiteral(s, j, <<"t", "r", "u", "e">>, JBool(TRUE))
            ELSE IF s[j] = "f" THEN JLiteral(s, j, <<"f", "a", "l", "s", "e">>, JBool(FALSE))
            ELSE JFail
        : s \in {s0}, i \in {i0}} : TRUE

\* The members of an object from position i; acc holds those parsed so far.
JMembers(s0, i0, acc0) ==
    CHOOSE result \in {
        LET j == SkipWs(s, i)
        IN  IF j > Len(s) \/ s[j] # "\"" THEN JFail
            ELSE LET key == JString(s, j)
                 IN  IF ~key.ok THEN JFail
                     ELSE LET c == SkipWs(s, key.i)
                          IN  IF c > Len(s) \/ s[c] # ":" THEN JFail
                              ELSE LET val == JValue(s, c + 1)
                                   IN  IF ~val.ok THEN JFail
                                       ELSE LET e == SkipWs(s, val.i)
                                                m == Append(acc, <<key.v.s, val.v>>)
                                            IN  IF e > Len(s) THEN JFail
                                                ELSE IF s[e] = "}" THEN JOk(JObj(m), e + 1)
                                                ELSE IF s[e] = "," THEN JMembers(s, e + 1, m)
                                                ELSE JFail
        : s \in {s0}, i \in {i0}, acc \in {acc0}} : TRUE

\* JSON.parse(s): the value, or Thrown for a SyntaxError.
JSONparse(s) ==
    LET r == JValue(s, 1)
    IN  IF r.ok /\ SkipWs(s, r.i) > Len(s) THEN r.v ELSE Thrown

\* The value of the last member named key, Undefined when there is none.
Lookup(m, key) ==
    LET P == {n \in 1..Len(m) : m[n][1] = key}
    IN  IF P = {} THEN Undefined ELSE m[CHOOSE n \in P : \A q \in P : q <= n][2]

\* v.key: a TypeError on null and undefined, undefined on the other primitives.
GetProp(v, key) ==
    IF v.k \in {"null", "undefined"} THEN Thrown
    ELSE IF v.k = "object" THEN Lookup(v.m, key)
    ELSE Undefined

\* The truthiness tested by if (data.text), data.reply || ..., data.error || ...
Truthy(v) ==
    IF v.k = "string" THEN v.s # <<>>
    ELSE IF v.k = "boolean" THEN v.b
    ELSE v.k = "object"

\* The string a value becomes when it is added to a string or put in a template.
String(v) ==
    IF v.k = "string" THEN v.s
    ELSE IF v.k = "boolean"
         THEN IF v.b THEN <<"t", "r", "u", "e">> ELSE <<"f", "a", "l", "s", "e">>
    ELSE IF v.k = "object"
         THEN <<"[", "o", "b", "j", "e", "c", "t", " ", "O", "b", "j", "e", "c", "t", "]">>
    ELSE IF v.k = "null" THEN <<"n", "u", "l", "l">>
    ELSE <<"u", "n", "d", "e", "f", "i", "n", "e", "d">>

(***************************************************************************)
(* element.innerHTML.  The children of an element are a sequence of nodes: *)
(* a text node [t |-> "text", s] or an element [t |-> "element", name,     *)
(* kids].  The setter parses markup into nodes and the getter serialises   *)
(* them, so element.innerHTML += s parses serialize(children) \o s.        *)
(* The parser covers character data, the character references the getter   *)
(* writes, and start and end tags without attributes; the markup of the    *)
(* script's own messages and of the modelled replies needs no more.        *)
(***************************************************************************)
Letters ==
    {"a", "b", "c", "d", "e", "f", "g", "h", "i", "j", "k", "l", "m", "n", "o", "p",
     "q", "r", "s", "t", "u", "v", "w", "x", "y", "z", "A", "B", "C", "D", "E", "F",
     "G", "H", "I", "J", "K", "L", "M", "N", "O", "P", "Q", "R", "S", "T", "U", "V",
     "W", "X", "Y", "Z"}

TextNode(s) == [t |-> "text", s |-> s]
ElementNode(name, kids) == [t |-> "element", name |-> name, kids |-> kids]

TextTok(s) == [t |-> "text", s |-> s]
TagTok(t, name) == [t |-> t, name |-> name]

\* The character references of the serialiser: &amp; &lt; &gt;
RefAmp == <<"&", "a", "m", "p", ";">>
RefLt == <<"&", "l", "t", ";">>
RefGt == <<"&", "g", "t", ";">>

RECURSIVE Tokenize(_, _, _)
\* The HTML tokenizer from position i of s; out holds the tokens so far.  A
\* run of characters other than "<" and "&" is one text token.
Tokenize(s0, i0, out0) ==
    CHOOSE result \in {
        IF i > Len(s) THEN out
        ELSE IF s[i] = "<"
        THEN IF i + 1 <= Len(s) /\ s[i + 1] \in Letters
             THEN \* tag name state, up to ">"; the end of input inside a tag drops it
                  LET e == IndexOf(s, <<">">>, i + 1)
                  IN  IF e = 0 THEN out
                      ELSE Tokenize(s, e + 1,
                               Append(out, TagTok("start", SubSeq(s, i + 1, e - 1))))
             ELSE IF i + 2 <= Len(s) /\ s[i + 1] = "/" /\ s[i + 2] \in Letters
             THEN LET e == IndexOf(s, <<">">>, i + 2)
                  IN  IF e = 0 THEN out
                      ELSE Tokenize(s, e + 1,
                               Append(out, TagTok("end", SubSeq(s, i + 2, e - 1))))
             ELSE IF i + 2 <= Len(s) /\ s[i + 1] = "/" /\ s[i + 2] = ">"
             THEN Tokenize(s, i + 3, out)   \* "</>" is dropped
             ELSE Tokenize(s, i + 1, Append(out, TextTok(<<"<">>)))
        ELSE IF s[i] = "&"
        THEN LET rest == SubSeq(s, i, Len(s))
             IN  IF startsWith(rest, RefAmp)
                 THEN Tokenize(s, i + Len(RefAmp), Append(out, TextTok(<<"&">>)))
                 ELSE IF startsWith(rest, RefLt)
                 THEN Tokenize(s, i + Len(RefLt), Append(out, TextTok(<<"<">>)))
                 ELSE IF startsWith(rest, RefGt)
                 THEN Tokenize(s, i + Len(RefGt), Append(out, TextTok(<<">">>)))
                 ELSE Tokenize(s, i + 1, Append(out, TextTok(<<"&">>)))
        ELSE LET e == IndexIn(s, {"<", "&"}, i)
                 j == IF e = 0 THEN Len(s) + 1 ELSE e
             IN  Tokenize(s, j, Append(out, TextTok(SubSeq(s, i, j - 1))))
        : s \in {s0}, i \in {i0}, out \in {out0}} : TRUE

\* Characters are inserted into the last child when that is a text node.
InsertText(kids, s) ==
    IF kids # <<>> /\ kids[Len(kids)].t = "text"
    THEN [kids EXCEPT ![Len(kids)].s = @ \o s]
    ELSE Append(kids, TextNode(s))

\* The stack of open elements: frame 1 is the element whose innerHTML is set.
\* Popping the current node makes it the last child of the one below.
PopFrame(stack) ==
    LET n == Len(stack)
    IN  [SubSeq(stack, 1, n - 1) EXCEPT
            ![n - 1].kids = Append(@, ElementNode(stack[n].name, stack[n].kids))]

RECURSIVE PopTo(_, _)
\* Pop the open elements down to and including frame j.
PopTo(stack0, j0) ==
    CHOOSE result \in {
        IF Len(stack) < j THEN stack ELSE PopTo(PopFrame(stack), j)
        : stack \in {stack0}, j \in {j0}} : TRUE

\* The innermost open element named name, 0 when none is open.
OpenIndex(stack, name) ==
    LET js == {j \in 2..Len(stack) : stack[j].name = name}
    IN  IF js = {} THEN 0 ELSE CHOOSE j \in js : \A k \in js : k <= j

RECURSIVE BuildTree(_, _, _)
\* Tree construction: an end tag closes the innermost open element of its
\* name and is ignored when there is none; the end of input closes them all.
BuildTree(toks0, i0, stack0) ==
    CHOOSE result \in {
        IF i > Len(toks) THEN PopTo(stack, 2)[1].kids
        ELSE LET tk == toks[i]
             IN  IF tk.t = "text"
                 THEN BuildTree(toks, i + 1,
                          [stack EXCEPT ![Len(stack)].kids = InsertText(@, tk.s)])
                 ELSE IF tk.t = "start"
                 THEN BuildTree(toks, i + 1,
                          Append(stack, [name |-> tk.name, kids |-> <<>>]))
                 ELSE LET j == OpenIndex(stack, tk.name)
                      IN  BuildTree(toks, i + 1, IF j = 0 THEN stack ELSE PopTo(stack, j))
        : toks \in {toks0}, i \in {i0}, stack \in {stack0}} : TRUE

\* The innerHTML setter: the children that markup s parses to.
parseHTML(s) ==
    BuildTree(Tokenize(s, 1, <<>>), 1, <<[name |-> <<>>, kids |-> <<>>]>>)

EscapeChar(c) ==
    IF c = "&" THEN RefAmp
    ELSE IF c = "<" THEN RefLt
    ELSE IF c = ">" THEN RefGt
    ELSE <<c>>

\* Text as the serialiser writes it.
escape(s) == Concat([i \in 1..Len(s) |-> EscapeChar(s[i])])

RECURSIVE serialize(_)
\* The innerHTML getter.
serialize(kids0) ==
    CHOOSE result \in {
        Concat([i \in 1..Len(kids) |->
            IF kids[i].t = "text" THEN escape(kids[i].s)
            ELSE <<"<">> \o kids[i].name \o <<">">> \o serialize(kids[i].kids)
                     \o <<"<", "/">> \o kids[i].name \o <<">">>])
        : kids \in {kids0}} : TRUE

RECURSIVE textContent(_)
\* The text a reader sees: the text nodes in document order.
textContent(kids0) ==
    CHOOSE result \in {
        Concat([i \in 1..Len(kids) |->
            IF kids[i].t = "text" THEN kids[i].s ELSE textContent(kids[i].kids)])
        : kids \in {kids0}} : TRUE

\* element.innerHTML += s
appendHTML(kids, s) == parseHTML(serialize(kids) \o s)

(***************************************************************************)
(* The script's literals                                                   *)
(***************************************************************************)
ErrorPrefix ==
    <<"<", "s", "t", "r", "o", "n", "g", ">", "E", "r", "r", "o", "r", ":", "<", "/",
      "s", "t", "r", "o", "n", "g", ">", " ">>

ConnectErrorDirect ==
    <<"<", "s", "t", "r", "o", "n", "g", ">", "E", "r", "r", "o", "r", ":", "<", "/",
      "s", "t", "r", "o", "n", "g", ">", " ", "N", "o", " ", "s", "e", " ", "p", "u",
      "d", "o", " ", "c", "o", "n", "e", "c", "t", "a", "r", " ", "c", "o", "n", " ",
      "e", "l", " ", "s", "e", "r", "v", "i", "d", "o", "r", ".", " ", "P", "o", "r",
      " ", "f", "a", "v", "o", "r", ",", " ", "i", "n", "t", "e", "n", "t", "a", " ",
      "d", "e", " ", "n", "u", "e", "v", "o", ".">>

UnknownReplyDirect ==
    <<"R", "e", "s", "p", "u", "e", "s", "t", "a", " ", "d", "e", "s", "c", "o", "n",
      "o", "c", "i", "d", "a", " ", "d", "e", "l", " ", "s", "e", "r", "v", "i", "d",
      "o", "r", ".">>

ConnectErrorTypewriter ==
    <<"<", "s", "t", "r", "o", "n", "g", ">", "E", "r", "r", "o", "r", ":", "<", "/",
      "s", "t", "r", "o", "n", "g", ">", " ", "N", "o", " ", "s", "e", " ", "p", "u",
      "d", "o", " ", "c", "o", "n", "e", "c", "t", "a", "r", " ", "c", "o", "n", " ",
      "e", "l", " ", "s", "e", "r", "v", "i", "d", "o", "r", ".">>

UnknownReplyTypewriter ==
    <<"R", "e", "s", "p", "u", "e", "s", "t", "a", " ", "d", "e", "s", "c", "o", "n",
      "o", "c", "i", "d", "a", ".">>

EventStream == "text/event-stream"

TextKey == <<"t", "e", "x", "t">>
ReplyKey == <<"r", "e", "p", "l", "y">>
ErrorKey == <<"e", "r", "r", "o", "r">>
GeminiKey == <<"g", "e", "m", "i", "n", "i">>
DatabricksKey == <<"d", "a", "t", "a", "b", "r", "i", "c", "k", "s">>
Available == <<"a", "v", "a", "i", "l", "a", "b", "l", "e">>
Unavailable == <<"u", "n", "a", "v", "a", "i", "l", "a", "b", "l", "e">>

(***************************************************************************)
(* Inputs: what the user types and what the server sends                   *)
(***************************************************************************)
\* The most submits with a message in one run.
MaxTurns == 2
\* The most records in one streamed body.
MaxRecords == 2
\* The most status requests in flight at once.
MaxPolls == 2

Variants == {"direct", "typewriter"}

Hello == <<"h", "e", "l", "l", "o">>

\* The values of the message field at a submit.
RawInputs == {<<>>, <<" ", NL>>, <<" ">> \o Hello \o <<NL>>}

RecHi == <<"d", "a", "t", "a", ":", "{", "\"", "t", "e", "x", "t", "\"", ":", "\"", "H", "i", "\"", "}">>
\* A fragment of markup.
RecBold ==
    <<"d", "a", "t", "a", ":", "{", "\"", "t", "e", "x", "t", "\"", ":", "\"", "<", "b",
      ">", "\"", "}">>
\* A fragment of one two-byte character.
RecAcute ==
    <<"d", "a", "t", "a", ":", "{", "\"", "t", "e", "x", "t", "\"", ":", "\"", LeadByte,
      ContByte, "\"", "}">>
\* A payload that is no JSON.
RecBad == <<"d", "a", "t", "a", ":", "{", "\"", "t", "e", "x", "t">>
\* A payload that parses to null, so that data.text throws.
RecNull == <<"d", "a", "t", "a", ":", "n", "u", "l", "l">>
\* A record of another event type.
RecEvent == <<"e", "v", "e", "n", "t", ":", "p", "i", "n", "g">>

\* What a streamed body is made of: records ended by the separator, a record
\* not ended by it, and a line break of its own.
Items ==
    {r \o SEP : r \in {RecHi, RecBold, RecAcute, RecBad, RecNull, RecEvent}}
        \cup {RecHi, <<NL>>}

RECURSIVE Bodies(_)
\* The bodies of at most n items.
Bodies(n) ==
    IF n = 0 THEN {<<>>}
    ELSE LET B == Bodies(n - 1) IN B \cup {b \o i : b \in B, i \in Items}

StreamInputs == Bodies(MaxRecords)

BodyReply ==
    <<"{", "\"", "r", "e", "p", "l", "y", "\"", ":", "\"", "H", "i", "\"", "}">>
BodyError ==
    <<"{", "\"", "e", "r", "r", "o", "r", "\"", ":", "\"", "n", "o", "\"", "}">>
BodyBad == <<"{", "\"", "r", "e", "p", "l", "y", "\"">>
BodyEmptyReply == <<"{", "\"", "r", "e", "p", "l", "y", "\"", ":", "\"", "\"", "}">>
BodyEmptyReplyAndError ==
    <<"{", "\"", "r", "e", "p", "l", "y", "\"", ":", "\"", "\"", ",",
      "\"", "e", "r", "r", "o", "r", "\"", ":", "\"", "n", "o", "\"", "}">>
BodyObject == <<"{", "}">>

\* The bodies of a reply of POST /chat that is not an event stream.
JsonInputs ==
    {BodyReply, BodyError, BodyBad, BodyEmptyReply, BodyEmptyReplyAndError, BodyObject}

\* A header value is the sequence of its media type and parameters; <<>> is
\* an absent header (headers.get gives null).
includes(header, word) == \E i \in 1..Len(header) : header[i] = word

Response(ok, contentType, body) ==
    [ok |-> ok, contentType |-> contentType, body |-> body]

StatusBoth ==
    <<"{", "\"", "g", "e", "m", "i", "n", "i", "\"", ":", "\"", "a", "v", "a", "i",
      "l", "a", "b", "l", "e", "\"", ",", "\"", "d", "a", "t", "a", "b", "r", "i", "c",
      "k", "s", "\"", ":", "\"", "a", "v", "a", "i", "l", "a", "b", "l", "e", "\"",
      "}">>
StatusGemini ==
    <<"{", "\"", "g", "e", "m", "i", "n", "i", "\"", ":", "\"", "a", "v", "a", "i",
      "l", "a", "b", "l", "e", "\"", "}">>
StatusOther ==
    <<"{", "\"", "g", "e", "m", "i", "n", "i", "\"", ":", "\"", "l", "i", "m", "i",
      "t", "e", "d", "\"", ",", "\"", "d", "a", "t", "a", "b", "r", "i", "c", "k", "s",
      "\"", ":", "\"", "d", "o", "w", "n", "\"", "}">>
StatusEmpty == <<"{", "}">>
StatusNull == <<"n", "u", "l", "l">>
StatusBad == <<"{", "\"", "g", "e", "m", "i", "n", "i", "\"">>

\* The replies of GET /api/status.
StatusResponses ==
    {Response(TRUE, <<"application/json">>, StatusBoth),
     Response(FALSE, <<"application/json">>, StatusBoth),
     Response(TRUE, <<"application/json">>, StatusGemini),
     Response(TRUE, <<"application/json">>, StatusOther),
     Response(TRUE, <<"application/json">>, StatusEmpty),
     Response(TRUE, <<"application/json">>, StatusNull),
     Response(TRUE, <<"application/json">>, StatusBad)}

\* The replies of POST /chat.
ChatResponses ==
    {Response(FALSE, <<>>, <<>>),
     Response(TRUE, <<EventStream, "charset=utf-8">>, RecHi \o SEP),
     Response(TRUE, <<"application/json">>, BodyReply),
     Response(TRUE, <<"application/json">>, BodyError),
     Response(TRUE, <<>>, BodyBad)}

(***************************************************************************)
(* State                                                                   *)
(***************************************************************************)
VARIABLES
    variant,        \* which of the file's two scripts the page runs
    sendDisabled,   \* sendButton.disabled
    chatWindow,     \* the message elements appended to chatWindow, each with
                    \* the children (dom) of the element its text is put in
    turns,          \* one activation of the submit handler per sent message
    reveals,        \* the typewriterEffect calls of each activation, in call order
    gemini,         \* the gemini-status element
    databricks,     \* the databricks-status element
    polls           \* the checkApiStatus activations in flight

chatVars == <<variant, sendDisabled, chatWindow, turns, reveals>>
statusVars == <<gemini, databricks, polls>>
vars == <<variant, sendDisabled, chatWindow, turns, reveals, gemini, databricks, polls>>

Message(sender, dom) == [sender |-> sender, dom |-> dom]

\* NewTurn with the bot element looked up in the page, where the first one is
\* found, instead of taken from the one just created.
NewTurnOnFirstElement(el) ==
    [pc |-> "fetch", path |-> "", el |-> 2, body |-> <<>>, pos |-> 0, pend |-> <<>>,
     buffer |-> <<>>, fullText |-> <<>>, emitted |-> <<>>, spread |-> FALSE,
     failed |-> FALSE]

\* A submit handler activation: pc is the await it is suspended at ("fetch",
\* "read", "json", "reveal" in the try block, "catch" in the catch block) or
\* "done"; path is the branch taken on the content type ("stream" or "json");
\* el is its bot element in chatWindow; body and pos are the response body
\* and how much of it the reader has delivered; pend, buffer and fullText are
\* the decoder state and the locals of handleStreamedResponse.  Three fields
\* record what has happened: emitted, the fragments the read loop has
\* emitted; spread, whether a record it has completed had arrived in more
\* than one chunk; failed, whether the catch block has run.  NewTurn is the
\* activation of a message just sent.
NewTurn(el) ==
    [pc |-> "fetch", path |-> "", el |-> el, body |-> <<>>, pos |-> 0, pend |-> <<>>,
     buffer |-> <<>>, fullText |-> <<>>, emitted |-> <<>>, spread |-> FALSE,
     failed |-> FALSE]

(***************************************************************************)
(* handleStreamedResponse                                                  *)
(***************************************************************************)
\* Reassemble with buffer = '' in place of buffer = parts.pop(): what follows the
\* last separator of a chunk is lost.
ReassembleKeepsNothing(buffer, pend, value) ==
    LET d == decode(pend, value)
        parts == split(buffer \o d.text, SEP)
    IN  [records |-> SubSeq(parts, 1, Len(parts) - 1),
         buffer |-> <<>>,
         pend |-> d.pend]

\* Reassemble without the pop: the last piece is both kept as the buffer and
\* handed to the loop as a record.
ReassembleNoPop(buffer, pend, value) ==
    LET d == decode(pend, value)
        parts == split(buffer \o d.text, SEP)
    IN  [records |-> parts,
         buffer |-> parts[Len(parts)],
         pend |-> d.pend]

\* The new chunk decoded and appended to the buffer, the buffer split, and
\* the last piece kept as the new buffer.
Reassemble(buffer, pend, value) ==
    LET d == decode(pend, value)
        parts == split(buffer \o d.text, SEP)
    IN  [records |-> SubSeq(parts, 1, Len(parts) - 1),
         buffer |-> parts[Len(parts)],
         pend |-> d.pend]

\* Fragment with the tag looked for in part.trim(): white space before the tag
\* does not make the record another kind of record.
FragmentTrimmed(part) ==
    IF ~startsWith(trim(part), TAG) THEN <<>>
    ELSE LET data == JSONparse(substring(trim(part), 5))
         IN  IF data.k = "throw" THEN <<>>
             ELSE LET text == GetProp(data, TextKey)
                  IN  IF text.k = "throw" \/ ~Truthy(text) THEN <<>>
                      ELSE <<String(text)>>

\* What one complete record emits: <<text>>, or <<>> when it has no data: tag,
\* its payload does not parse, or data.text throws or is falsy.
Fragment(part) ==
    IF ~startsWith(part, TAG) THEN <<>>
    ELSE LET data == JSONparse(substring(part, 5))
         IN  IF data.k = "throw" THEN <<>>
             ELSE LET text == GetProp(data, TextKey)
                  IN  IF text.k = "throw" \/ ~Truthy(text) THEN <<>>
                      ELSE <<String(text)>>

RECURSIVE FragmentsUntilError(_)
\* Fragments with the try around the loop instead of inside it: the first
\* payload that does not parse ends the loop.
FragmentsUntilError(parts0) ==
    CHOOSE result \in {
        IF parts = <<>> THEN <<>>
        ELSE IF startsWith(Head(parts), TAG) /\ JSONparse(substring(Head(parts), 5)).k = "throw"
        THEN <<>>
        ELSE Fragment(Head(parts)) \o FragmentsUntilError(Tail(parts))
        : parts \in {parts0}} : TRUE

RECURSIVE Fragments(_)
\* The for loop over the complete records.
Fragments(parts0) ==
    CHOOSE result \in {
        IF parts = <<>> THEN <<>> ELSE Fragment(Head(parts)) \o Fragments(Tail(parts))
        : parts \in {parts0}} : TRUE

RECURSIVE RenderAll(_, _)
\* botMessageElement.innerHTML += data.text, fragment by fragment.
RenderAll(dom0, frags0) ==
    CHOOSE result \in {
        IF frags = <<>> THEN dom ELSE RenderAll(appendHTML(dom, Head(frags)), Tail(frags))
        : dom \in {dom0}, frags \in {frags0}} : TRUE

(***************************************************************************)
(* typewriterEffect                                                        *)
(***************************************************************************)
\* A call: el is the element, text the argument, i the closure's counter,
\* timer whether a setTimeout(type) is pending (the promise is resolved when
\* none is), timers how many were set.
NewReveal(el, text) ==
    [el |-> el, text |-> text, i |-> 0, timer |-> FALSE, timers |-> 0]

\* type() with the test i < text.length - 1: the last character is never
\* written.
typeStopsEarly(dom, r) ==
    IF r.text.k = "string" /\ r.i + 1 < Len(r.text.s)
    THEN [dom |-> appendHTML(dom, <<r.text.s[r.i + 1]>>),
          reveal |-> [r EXCEPT !.i = @ + 1, !.timer = TRUE, !.timers = @ + 1]]
    ELSE [dom |-> dom, reveal |-> [r EXCEPT !.timer = FALSE]]

\* One call of type(): text.length is undefined unless text is a string, and
\* i < undefined is false.
type(dom, r) ==
    IF r.text.k = "string" /\ r.i < Len(r.text.s)
    THEN [dom |-> appendHTML(dom, <<r.text.s[r.i + 1]>>),
          reveal |-> [r EXCEPT !.i = @ + 1, !.timer = TRUE, !.timers = @ + 1]]
    ELSE [dom |-> dom, reveal |-> [r EXCEPT !.timer = FALSE]]

\* typewriterEffect(text, element): the element is emptied and type() runs once.
typewriterEffect(text, el) == type(parseHTML(<<>>), NewReveal(el, text))

(***************************************************************************)
(* The submit handler                                                      *)
(***************************************************************************)
\* Reveal without the await: the handler goes on to its finally block while
\* the timer of the call is pending.
RevealNotAwaited(t, tn, text, awaiting) ==
    \E r \in {typewriterEffect(text, tn.el)} :
        /\ chatWindow' = [chatWindow EXCEPT ![tn.el].dom = r.dom]
        /\ reveals' = [reveals EXCEPT ![t] = Append(@, r.reveal)]
        /\ turns' = [turns EXCEPT ![t] = [tn EXCEPT !.pc = "done"]]
        /\ sendDisabled' = FALSE

\* await typewriterEffect(text, el) in activation t, whose record becomes tn;
\* when the promise is already resolved the handler goes on to its finally
\* block in the same task.
Reveal(t, tn, text, awaiting) ==
    \E r \in {typewriterEffect(text, tn.el)} :
        /\ chatWindow' = [chatWindow EXCEPT ![tn.el].dom = r.dom]
        /\ reveals' = [reveals EXCEPT ![t] = Append(@, r.reveal)]
        /\ IF r.reveal.timer
           THEN /\ turns' = [turns EXCEPT ![t] = [tn EXCEPT !.pc = awaiting]]
                /\ UNCHANGED sendDisabled
           ELSE /\ turns' = [turns EXCEPT ![t] = [tn EXCEPT !.pc = "done"]]
                /\ sendDisabled' = FALSE

\* The finally block, after the try block has set the bot element to dom.
Finally(t, tn, dom) ==
    /\ chatWindow' = [chatWindow EXCEPT ![tn.el].dom = dom]
    /\ turns' = [turns EXCEPT ![t] = [tn EXCEPT !.pc = "done"]]
    /\ sendDisabled' = FALSE
    /\ UNCHANGED reveals

\* The try block left by an exception: the response and the locals of
\* handleStreamedResponse are gone.
Unwound(tn) ==
    [tn EXCEPT !.path = "", !.body = <<>>, !.pos = 0, !.pend = <<>>, !.buffer = <<>>,
               !.fullText = <<>>, !.failed = TRUE]

\* Catch that sends the request again.
CatchRetrying(t) ==
    /\ turns' = [turns EXCEPT ![t] = [Unwound(@) EXCEPT !.pc = "fetch"]]
    /\ UNCHANGED <<sendDisabled, chatWindow, reveals>>

\* Catch for a handler with no catch and no finally block: the exception ends
\* the activation and nothing else happens.
CatchMissing(t) ==
    /\ turns' = [turns EXCEPT ![t] = [Unwound(@) EXCEPT !.pc = "done"]]
    /\ UNCHANGED <<sendDisabled, chatWindow, reveals>>

\* The catch block followed by the finally block.
Catch(t) ==
    IF variant = "direct"
    THEN Finally(t, Unwound(turns[t]), parseHTML(ConnectErrorDirect))
    ELSE Reveal(t, Unwound(turns[t]), JStr(ConnectErrorTypewriter), "catch")

\* The submit event with the message field holding raw: an empty message
\* returns at once.
Submit(raw) ==
    /\ Len(turns) < MaxTurns
    /\ LET message == trim(raw)
       IN  IF message = <<>> THEN UNCHANGED chatVars
           ELSE /\ chatWindow' = chatWindow \o
                       <<Message("user", <<TextNode(message)>>), Message("bot", <<>>)>>
                /\ sendDisabled' = TRUE
                /\ turns' = Append(turns, NewTurn(Len(chatWindow) + 2))
                /\ reveals' = Append(reveals, <<>>)
                /\ UNCHANGED variant
    /\ UNCHANGED statusVars

\* fetch('/chat') rejects.
FetchReject(t) ==
    /\ turns[t].pc = "fetch"
    /\ Catch(t)
    /\ UNCHANGED <<variant, statusVars>>

\* fetch('/chat') resolves with response rsp.
FetchResolve(t, rsp) ==
    /\ turns[t].pc = "fetch"
    /\ IF ~rsp.ok THEN Catch(t)
       ELSE /\ turns' = [turns EXCEPT ![t] =
                   IF includes(rsp.contentType, EventStream)
                   THEN [@ EXCEPT !.pc = "read", !.path = "stream", !.body = rsp.body]
                   ELSE [@ EXCEPT !.pc = "json", !.path = "json", !.body = rsp.body]]
            /\ UNCHANGED <<sendDisabled, chatWindow, reveals>>
    /\ UNCHANGED <<variant, statusVars>>

\* ReadChunk with the typewriter script writing each fragment to the element
\* as well as adding it to fullText.
ReadChunkRendering(t, n) ==
    /\ turns[t].pc = "read"
    /\ n \in 1..(Len(turns[t].body) - turns[t].pos)
    /\ LET tn == turns[t]
           value == SubSeq(tn.body, tn.pos + 1, tn.pos + n)
       IN  \E a \in {Reassemble(tn.buffer, tn.pend, value)} :
           \E frags \in {Fragments(a.records)} :
               /\ turns' = [turns EXCEPT ![t] =
                      [tn EXCEPT !.pos = @ + n, !.buffer = a.buffer, !.pend = a.pend,
                                 !.emitted = @ \o frags,
                                 !.spread = @ \/ (a.records # <<>> /\ tn.buffer # <<>>),
                                 !.fullText = IF variant = "typewriter"
                                              THEN @ \o Concat(frags) ELSE @]]
               /\ chatWindow' = [chatWindow EXCEPT ![tn.el].dom = RenderAll(@, frags)]
    /\ UNCHANGED <<variant, sendDisabled, reveals, statusVars>>

\* reader.read() resolves with the next n bytes of the body.
ReadChunk(t, n) ==
    /\ turns[t].pc = "read"
    /\ n \in 1..(Len(turns[t].body) - turns[t].pos)
    /\ LET tn == turns[t]
           value == SubSeq(tn.body, tn.pos + 1, tn.pos + n)
       IN  \E a \in {Reassemble(tn.buffer, tn.pend, value)} :
           \E frags \in {Fragments(a.records)} :
               /\ turns' = [turns EXCEPT ![t] =
                      [tn EXCEPT !.pos = @ + n, !.buffer = a.buffer, !.pend = a.pend,
                                 !.emitted = @ \o frags,
                                 !.spread = @ \/ (a.records # <<>> /\ tn.buffer # <<>>),
                                 !.fullText = IF variant = "typewriter"
                                              THEN @ \o Concat(frags) ELSE @]]
               /\ chatWindow' =
                      IF variant = "direct"
                      THEN [chatWindow EXCEPT ![tn.el].dom = RenderAll(@, frags)]
                      ELSE chatWindow
    /\ UNCHANGED <<variant, sendDisabled, reveals, statusVars>>

\* ReadDone with the buffer handled as a last record when the stream ends.
ReadDoneFlushing(t) ==
    /\ turns[t].pc = "read"
    /\ turns[t].pos = Len(turns[t].body)
    /\ \E frags \in {Fragment(turns[t].buffer)} :
           IF variant = "direct"
           THEN Finally(t, turns[t], RenderAll(chatWindow[turns[t].el].dom, frags))
           ELSE Reveal(t, turns[t], JStr(turns[t].fullText \o Concat(frags)), "reveal")
    /\ UNCHANGED <<variant, statusVars>>

\* reader.read() resolves with done: the loop ends.
ReadDone(t) ==
    /\ turns[t].pc = "read"
    /\ turns[t].pos = Len(turns[t].body)
    /\ IF variant = "direct"
       THEN Finally(t, turns[t], chatWindow[turns[t].el].dom)
       ELSE Reveal(t, turns[t], JStr(turns[t].fullText), "reveal")
    /\ UNCHANGED <<variant, statusVars>>

\* reader.read() rejects.
ReadFail(t) ==
    /\ turns[t].pc = "read"
    /\ Catch(t)
    /\ UNCHANGED <<variant, statusVars>>

\* The whole body decoded, as response.json() does before it parses.
decodeAll(bytes) ==
    LET d == decode(<<>>, bytes)
    IN  IF d.pend = <<>> THEN d.text ELSE Append(d.text, Replacement)

\* The error message of a body without a reply.
ErrorReply(data, unknown) ==
    LET error == GetProp(data, ErrorKey)
    IN  ErrorPrefix \o (IF Truthy(error) THEN String(error) ELSE unknown)

\* response.json() settles: it rejects when the body cannot be read (received
\* is false) or does not parse.
JsonSettle(t, received) ==
    /\ turns[t].pc = "json"
    /\ \E data \in {IF received THEN JSONparse(decodeAll(turns[t].body)) ELSE Thrown} :
       \E reply \in {IF data.k = "throw" THEN Thrown ELSE GetProp(data, ReplyKey)} :
           IF reply.k = "throw" THEN Catch(t)
           ELSE IF variant = "direct"
           THEN Finally(t, turns[t],
                    parseHTML(IF Truthy(reply) THEN String(reply)
                              ELSE ErrorReply(data, UnknownReplyDirect)))
           ELSE Reveal(t, turns[t],
                    IF Truthy(reply) THEN reply
                    ELSE JStr(ErrorReply(data, UnknownReplyTypewriter)),
                    "reveal")
    /\ UNCHANGED <<variant, statusVars>>

\* Tick with the element kept in one variable shared by the activations, where
\* the latest submit has put its bot element.
TickOnLastElement(t, k) ==
    /\ reveals[t][k].timer
    /\ \E r \in {type(chatWindow[Len(chatWindow)].dom, reveals[t][k])} :
           /\ chatWindow' = [chatWindow EXCEPT ![Len(chatWindow)].dom = r.dom]
           /\ reveals' = [reveals EXCEPT ![t][k] = r.reveal]
           /\ IF r.reveal.timer THEN UNCHANGED <<turns, sendDisabled>>
              ELSE /\ turns' = [turns EXCEPT ![t].pc = "done"]
                   /\ sendDisabled' = FALSE
    /\ UNCHANGED <<variant, statusVars>>

\* The timer of call k of activation t fires: type() runs, and when it
\* resolves the promise the awaiting handler runs its finally block.
Tick(t, k) ==
    /\ reveals[t][k].timer
    /\ \E r \in {type(chatWindow[reveals[t][k].el].dom, reveals[t][k])} :
           /\ chatWindow' = [chatWindow EXCEPT ![reveals[t][k].el].dom = r.dom]
           /\ reveals' = [reveals EXCEPT ![t][k] = r.reveal]
           /\ IF r.reveal.timer THEN UNCHANGED <<turns, sendDisabled>>
              ELSE /\ turns' = [turns EXCEPT ![t].pc = "done"]
                   /\ sendDisabled' = FALSE
    /\ UNCHANGED <<variant, statusVars>>

InitChat ==
    /\ variant \in Variants
    /\ sendDisabled = FALSE
    /\ chatWindow = <<>>
    /\ turns = <<>>
    /\ reveals = <<>>

(***************************************************************************)
(* The status poller                                                       *)
(***************************************************************************)
\* An indicator element: className as the set of its classes, and title.
Indicator(className, title) == [className |-> className, title |-> title]

\* className = 'fas fa-circle status-light'
BaseClasses == {"fas", "fa-circle", "status-light"}

\* The status passed to updateApiStatus when the request fails.
FailureStatus ==
    JObj(<< <<GeminiKey, JStr(Unavailable)>>, <<DatabricksKey, JStr(Unavailable)>> >>)

GeminiName == IF variant = "direct" THEN "Gemini" ELSE "LLM"

\* updateApiStatus without the two assignments to className: classList.add
\* adds to the classes the indicators have.
updateApiStatusNoReset(status) ==
    LET g == GetProp(status, GeminiKey)
        d == GetProp(status, DatabricksKey)
    IN  IF g.k = "throw" THEN Thrown
        ELSE [k |-> "set",
              gemini |->
                  IF g = JStr(Available)
                  THEN Indicator(gemini.className \cup {"available"},
                                 <<GeminiName, ": Disponible">>)
                  ELSE Indicator(gemini.className \cup {"limited"},
                                 <<GeminiName, ": Límite alcanzado o no disponible">>),
              databricks |->
                  IF d = JStr(Available)
                  THEN Indicator(databricks.className \cup {"available"},
                                 <<"Databricks", ": Disponible">>)
                  ELSE Indicator(databricks.className \cup {"unavailable"},
                                 <<"Databricks", ": No disponible">>)]

\* updateApiStatus(status): the two indicators, or Thrown when reading a
\* field of status throws.
updateApiStatus(status) ==
    LET g == GetProp(status, GeminiKey)
        d == GetProp(status, DatabricksKey)
    IN  IF g.k = "throw" THEN Thrown
        ELSE [k |-> "set",
              gemini |->
                  IF g = JStr(Available)
                  THEN Indicator(BaseClasses \cup {"available"},
                                 <<GeminiName, ": Disponible">>)
                  ELSE Indicator(BaseClasses \cup {"limited"},
                                 <<GeminiName, ": Límite alcanzado o no disponible">>),
              databricks |->
                  IF d = JStr(Available)
                  THEN Indicator(BaseClasses \cup {"available"},
                                 <<"Databricks", ": Disponible">>)
                  ELSE Indicator(BaseClasses \cup {"unavailable"},
                                 <<"Databricks", ": No disponible">>)]

\* The indicators set from what updateApiStatus returns.
SetIndicators(u) ==
    /\ gemini' = u.gemini
    /\ databricks' = u.databricks

\* StatusCatch that only logs the error.
StatusCatchSilent == UNCHANGED <<gemini, databricks>>

\* The catch block of checkApiStatus.
StatusCatch == SetIndicators(updateApiStatus(FailureStatus))

\* polls without its p-th activation, which has returned.
Returned(p) == SubSeq(polls, 1, p - 1) \o SubSeq(polls, p + 1, Len(polls))

\* The interval timer fires and checkApiStatus starts its fetch.
CheckApiStatus ==
    /\ Len(polls) < MaxPolls
    /\ polls' = Append(polls, [pc |-> "fetch", body |-> <<>>])
    /\ UNCHANGED <<gemini, databricks, chatVars>>

\* fetch('/api/status') rejects.
StatusFetchReject(p) ==
    /\ polls[p].pc = "fetch"
    /\ StatusCatch
    /\ polls' = Returned(p)
    /\ UNCHANGED chatVars

\* fetch('/api/status') resolves with rsp; only the typewriter script looks
\* at response.ok.
StatusFetchResolve(p, rsp) ==
    /\ polls[p].pc = "fetch"
    /\ IF variant = "typewriter" /\ ~rsp.ok
       THEN StatusCatch /\ polls' = Returned(p)
       ELSE /\ polls' = [polls EXCEPT ![p] =
                            [pc |-> "json", ok |-> rsp.ok, body |-> rsp.body]]
            /\ UNCHANGED <<gemini, databricks>>
    /\ UNCHANGED chatVars

\* response.json() settles and updateApiStatus is called with its value.
StatusJsonSettle(p, received) ==
    /\ polls[p].pc = "json"
    /\ \E status \in {IF received THEN JSONparse(decodeAll(polls[p].body)) ELSE Thrown} :
       \E u \in {IF status.k = "throw" THEN Thrown ELSE updateApiStatus(status)} :
           IF u.k = "throw" THEN StatusCatch ELSE SetIndicators(u)
    /\ polls' = Returned(p)
    /\ UNCHANGED chatVars

\* The page as loaded: the indicators carry no level yet, and the first
\* checkApiStatus() is awaiting its fetch.
InitStatus ==
    /\ gemini = Indicator(BaseClasses, <<>>)
    /\ databricks = Indicator(BaseClasses, <<>>)
    /\ polls = <<[pc |-> "fetch", body |-> <<>>]>>

NextStatus ==
    \/ CheckApiStatus
    \/ \E p \in 1..Len(polls) : StatusFetchReject(p)
    \/ \E p \in 1..Len(polls) : \E rsp \in StatusResponses : StatusFetchResolve(p, rsp)
    \/ \E p \in 1..Len(polls) : \E received \in BOOLEAN : StatusJsonSettle(p, received)

Init == InitChat /\ InitStatus

NextChat ==
    \/ \E raw \in RawInputs : Submit(raw)
    \/ \E t \in 1..Len(turns) : FetchReject(t)
    \/ \E t \in 1..Len(turns) : \E rsp \in ChatResponses : FetchResolve(t, rsp)
    \/ \E t \in 1..Len(turns) : \E n \in 1..Len(turns[t].body) : ReadChunk(t, n)
    \/ \E t \in 1..Len(turns) : ReadDone(t)
    \/ \E t \in 1..Len(turns) : ReadFail(t)
    \/ \E t \in 1..Len(turns) : \E received \in BOOLEAN : JsonSettle(t, received)
    \/ \E t \in 1..Len(turns) : \E k \in 1..Len(reveals[t]) : Tick(t, k)

Next == NextChat \/ NextStatus

Spec == Init /\ [][Next]_vars

\* The chat alone: the poller shares no state with it.
SpecChat == Init /\ [][NextChat]_vars

\* The poller alone.
SpecStatus == Init /\ [][NextStatus]_vars

\* handleStreamedResponse alone: one message has been sent and its fetch has
\* resolved with an event stream.
InitStream ==
    /\ variant \in Variants
    /\ sendDisabled = TRUE
    /\ chatWindow = <<Message("user", <<TextNode(Hello)>>), Message("bot", <<>>)>>
    /\ \E body \in StreamInputs :
           turns = <<[NewTurn(2) EXCEPT !.pc = "read", !.path = "stream", !.body = body]>>
    /\ reveals = <<<<>>>>
    /\ InitStatus

NextStream ==
    \/ \E n \in 1..Len(turns[1].body) : ReadChunk(1, n)
    \/ ReadDone(1)
    \/ ReadFail(1)
    \/ \E k \in 1..Len(reveals[1]) : Tick(1, k)

SpecStream == InitStream /\ [][NextStream]_vars

\* The else branch of the submit handler alone: one message has been sent and
\* its fetch has resolved with a response that is not an event stream.
InitJson ==
    /\ variant \in Variants
    /\ sendDisabled = TRUE
    /\ chatWindow = <<Message("user", <<TextNode(Hello)>>), Message("bot", <<>>)>>
    /\ \E body \in JsonInputs :
           turns = <<[NewTurn(2) EXCEPT !.pc = "json", !.path = "json", !.body = body]>>
    /\ reveals = <<<<>>>>
    /\ InitStatus

NextJson ==
    \/ \E received \in BOOLEAN : JsonSettle(1, received)
    \/ \E k \in 1..Len(reveals[1]) : Tick(1, k)

SpecJson == InitJson /\ [][NextJson]_vars

(***************************************************************************)
(* Properties of the stream reader                                         *)
(***************************************************************************)
\* The bytes activation tn has been given so far.
Received(tn) == SubSeq(tn.body, 1, tn.pos)

\* The records of a byte stream that a separator ends, read off the stream as
\* a whole.
CompleteRecords(bytes) ==
    LET parts == split(decode(<<>>, bytes).text, SEP)
    IN  SubSeq(parts, 1, Len(parts) - 1)

\* The fragments emitted when the bytes arrive as one chunk.
OneChunk(bytes) == Fragments(Reassemble(<<>>, <<>>, bytes).records)

\* A data: record whose payload is not JSON.
Malformed(part) ==
    startsWith(part, TAG) /\ JSONparse(substring(part, 5)).k = "throw"

\* s without its j-th element.
Without(s, j) == SubSeq(s, 1, j - 1) \o SubSeq(s, j + 1, Len(s))

TextHi == <<"H", "i">>

\* C1: however the bytes received so far were cut into chunks, the read loop
\* has emitted the fragments, in the order, that it emits when the same bytes
\* arrive as one chunk.
ChunkBoundaryIndependence ==
    \A t \in 1..Len(turns) :
        turns[t].pc = "read" => turns[t].emitted = OneChunk(Received(turns[t]))

\* C1: a whole two-record stream has arrived in chunks, one of them ending
\* inside a record, and both fragments are out.
ChunkedStreamRead ==
    \E t \in 1..Len(turns) :
        /\ turns[t].pc = "read"
        /\ turns[t].pos = Len(turns[t].body)
        /\ turns[t].spread
        /\ Len(turns[t].emitted) = 2

\* C2 (as stated): in the direct script, after every chunk the bot element
\* holds the concatenation of the text fields of the well-formed data: records
\* that a separator has ended so far.
ContentIsConcatenation ==
    \A t \in 1..Len(turns) :
        (variant = "direct" /\ turns[t].pc = "read")
            => chatWindow[turns[t].el].dom =
                   parseHTML(Concat(Fragments(CompleteRecords(Received(turns[t])))))

\* C3: a chunk makes the loop emit the fragments of exactly the records whose
\* separator it completes, so a record that arrives over several chunks is
\* emitted once, with the chunk that ends its separator, and not before.
SpreadRecordEmittedOnce ==
    [][\A t \in 1..Len(turns) :
           (turns[t].pc = "read" /\ turns'[t].pc = "read")
               => LET before == CompleteRecords(Received(turns[t]))
                      after == CompleteRecords(Received(turns'[t]))
                  IN  turns'[t].emitted =
                          turns[t].emitted
                              \o Fragments(SubSeq(after, Len(before) + 1, Len(after)))]_vars

\* C3: the one record of a stream arrived over more than one chunk and one
\* fragment is out.
SpreadRecordRead ==
    \E t \in 1..Len(turns) :
        /\ turns[t].pc = "read"
        /\ turns[t].body = RecHi \o SEP
        /\ turns[t].pos = Len(turns[t].body)
        /\ turns[t].spread
        /\ turns[t].emitted = <<TextHi>>

\* C4: a data: record whose payload is not JSON emits nothing and does not end
\* the loop: what has been emitted is what the stream without that record
\* emits, the fragments of the records after it included.
MalformedRecordSkipped ==
    \A t \in 1..Len(turns) :
        turns[t].pc = "read"
            => LET records == CompleteRecords(Received(turns[t]))
               IN  \A j \in 1..Len(records) :
                       Malformed(records[j])
                           => turns[t].emitted = Fragments(Without(records, j))

\* C4: a malformed record came first, the record after it has been emitted and
\* the loop is still reading.
ReadPastMalformedRecord ==
    \E t \in 1..Len(turns) :
        /\ turns[t].pc = "read"
        /\ turns[t].body = RecBad \o SEP \o RecHi \o SEP
        /\ turns[t].pos = Len(turns[t].body)
        /\ turns[t].emitted = <<TextHi>>

\* C7: when the stream has ended, what is shown (direct) or handed to the
\* typewriter is made of the fragments of the records a separator ended: what
\* the buffer still held contributes nothing, a complete payload included.
TrailingBufferDiscarded ==
    \A t \in 1..Len(turns) :
        (turns[t].path = "stream" /\ ~turns[t].failed /\ turns[t].pc \in {"reveal", "done"})
            => LET frags == Fragments(CompleteRecords(turns[t].body))
               IN  IF variant = "direct"
                   THEN chatWindow[turns[t].el].dom = RenderAll(<<>>, frags)
                   ELSE /\ Len(reveals[t]) = 1
                        /\ reveals[t][1].text = JStr(Concat(frags))

\* C7: a stream ended with a complete payload that no separator followed.
StreamEndedWithPayloadInBuffer ==
    \E t \in 1..Len(turns) :
        /\ turns[t].path = "stream"
        /\ ~turns[t].failed
        /\ turns[t].pc = "done"
        /\ turns[t].body = RecHi \o SEP \o RecHi
        /\ turns[t].buffer = RecHi
        /\ turns[t].emitted = <<TextHi>>

(***************************************************************************)
(* Properties of the typewriter                                            *)
(***************************************************************************)
\* C8: a typewriterEffect call on a string of length N has set one timer per
\* character written, the element holds the characters written so far in the
\* order of the text, the promise is resolved only when all N are written
\* (the awaiting handler waits until then), for N = 0 it is resolved in the
\* call with nothing written and no timer set, and a step writes at most one
\* character, when a pending timer fires.
TypewriterIncrements ==
    /\ [](\A t \in 1..Len(reveals) : \A k \in 1..Len(reveals[t]) :
              LET r == reveals[t][k]
              IN  r.text.k = "string"
                      => /\ r.i <= Len(r.text.s)
                         /\ r.timers = r.i
                         /\ textContent(chatWindow[r.el].dom) = SubSeq(r.text.s, 1, r.i)
                         /\ r.timer => r.i >= 1
                         /\ r.timer => turns[t].pc \in {"reveal", "catch"}
                         /\ ~r.timer => r.i = Len(r.text.s) /\ turns[t].pc = "done")
    /\ [][\A t \in 1..Len(reveals) : \A k \in 1..Len(reveals[t]) :
              \/ reveals'[t][k].i = reveals[t][k].i
              \/ /\ reveals[t][k].timer
                 /\ reveals'[t][k].i = reveals[t][k].i + 1]_vars

\* C8: a typewriterEffect call on a two-character text has written both and
\* resolved.
TypewriterResolved ==
    \E t \in 1..Len(reveals) : \E k \in 1..Len(reveals[t]) :
        /\ reveals[t][k].text = JStr(TextHi)
        /\ ~reveals[t][k].timer
        /\ reveals[t][k].i = 2
        /\ reveals[t][k].timers = 2
        /\ turns[t].pc = "done"

\* C9: no two typewriterEffect calls with a timer pending write to the same
\* element.
SingleFlightPerTarget ==
    \A t1 \in 1..Len(reveals) : \A t2 \in 1..Len(reveals) :
        \A k1 \in 1..Len(reveals[t1]) : \A k2 \in 1..Len(reveals[t2]) :
            (<<t1, k1>> # <<t2, k2>> /\ reveals[t1][k1].timer /\ reveals[t2][k2].timer)
                => reveals[t1][k1].el # reveals[t2][k2].el

\* C9: two typewriterEffect calls are under way at once.
TwoRevealsUnderWay ==
    /\ Len(reveals) = 2
    /\ Len(reveals[1]) = 1 /\ reveals[1][1].timer /\ reveals[1][1].i > 1
    /\ Len(reveals[2]) = 1 /\ reveals[2][1].timer /\ reveals[2][1].i > 1

(***************************************************************************)
(* Properties of the send control                                          *)
(***************************************************************************)
\* The submit event on a page that has sent no message yet.
SubmitFirst(raw) == turns = <<>> /\ Submit(raw)

\* What settles the promise the first activation awaits.
FetchSettle == turns # <<>> /\ (FetchReject(1) \/ \E rsp \in ChatResponses : FetchResolve(1, rsp))
ReadSettle ==
    turns # <<>> /\ (ReadDone(1) \/ ReadFail(1)
                         \/ \E n \in 1..Len(turns[1].body) : ReadChunk(1, n))
JsonSettles == turns # <<>> /\ \E received \in BOOLEAN : JsonSettle(1, received)
TimerFires == turns # <<>> /\ \E k \in 1..Len(reveals[1]) : Tick(1, k)

NextTurn ==
    \/ \E raw \in RawInputs : SubmitFirst(raw)
    \/ FetchSettle
    \/ ReadSettle
    \/ JsonSettles
    \/ TimerFires

\* One turn of the chat in which every pending promise settles and every
\* timer fires.
SpecTurnFair ==
    /\ Init
    /\ [][NextTurn]_vars
    /\ WF_vars(FetchSettle)
    /\ WF_vars(ReadSettle)
    /\ WF_vars(JsonSettles)
    /\ WF_vars(TimerFires)

\* C5: every message sent leads to its handler having finished with the send
\* control enabled, whichever way the turn goes.
SendReEnabled ==
    \A t \in 1..MaxTurns :
        (Len(turns) >= t)
            ~> (Len(turns) >= t /\ turns[t].pc = "done" /\ ~sendDisabled)

\* C5: a turn whose request failed has finished and the send control is enabled.
FailedTurnFinished ==
    \E t \in 1..Len(turns) :
        turns[t].failed /\ turns[t].pc = "done" /\ ~sendDisabled

\* C6 (as stated): the send control is disabled whenever a turn is in
\* flight, a turn started while an earlier one was in flight included.
DisabledWhileInFlight ==
    (\E t \in 1..Len(turns) : turns[t].pc # "done") => sendDisabled

(***************************************************************************)
(* Properties of the status poller                                         *)
(***************************************************************************)
\* The status read by activation p.
StatusOf(p) == JSONparse(decodeAll(polls[p].body))

\* Activation p ends in the catch block.
StatusFailed(p) ==
    \/ StatusFetchReject(p)
    \/ \E rsp \in StatusResponses :
           variant = "typewriter" /\ ~rsp.ok /\ StatusFetchResolve(p, rsp)
    \/ StatusJsonSettle(p, FALSE)
    \/ /\ StatusJsonSettle(p, TRUE)
       /\ StatusOf(p).k \in {"throw", "null"}

\* Activation p ends with an object of which field key is not "available".
StatusUnrecognized(p, key) ==
    /\ StatusJsonSettle(p, TRUE)
    /\ StatusOf(p).k = "object"
    /\ GetProp(StatusOf(p), key) # JStr(Available)

NonOkStatusEnds(p) ==
    \/ \E rsp \in StatusResponses :
           ~rsp.ok /\ StatusFetchResolve(p, rsp) /\ Len(polls') < Len(polls)
    \/ /\ polls[p].pc = "json"
       /\ ~polls[p].ok
       /\ \E received \in BOOLEAN : StatusJsonSettle(p, received)

\* C11 (as stated): a status response that is not OK is a failure: the
\* activation ends with the indicators at their failure defaults, and its body
\* sets neither of them to "available".
NonOkStatusIsFailure ==
    [][\A p \in 1..Len(polls) :
           NonOkStatusEnds(p)
               => /\ gemini'.className = BaseClasses \cup {"limited"}
                  /\ databricks'.className = BaseClasses \cup {"unavailable"}]_vars

(***************************************************************************)
(* Properties of the rendered messages                                     *)
(***************************************************************************)
IsPrefix(s, t) == Len(s) <= Len(t) /\ SubSeq(t, 1, Len(s)) = s

\* The text shown in message element el.
Shown(el) == textContent(chatWindow[el].dom)

\* C12 (as stated): the text of a bot message before a step is a prefix of
\* its text after the step, a step in which a read fails included.
MessageAppendOnly ==
    [][\A t \in 1..Len(turns) :
           IsPrefix(Shown(turns[t].el), Shown(turns[t].el)')]_vars

\* Activation t takes part in the step.
Moves(t) == turns'[t] # turns[t] \/ reveals'[t] # reveals[t]

\* C13: the activations write to different elements, and a step that changes
\* a message is a step of the one activation that owns it, which has not
\* finished: no step writes into the message of another turn or of a turn
\* that is complete, and the user's messages never change.
TurnsNeverInterleave ==
    /\ [](\A t1 \in 1..Len(turns) : \A t2 \in 1..Len(turns) :
              t1 # t2 => turns[t1].el # turns[t2].el)
    /\ [][\A e \in 1..Len(chatWindow) :
              chatWindow'[e] # chatWindow[e]
                  => \E t \in 1..Len(turns) :
                         /\ turns[t].el = e
                         /\ turns[t].pc # "done"
                         /\ Moves(t)
                         /\ \A u \in 1..Len(turns) : u # t => ~Moves(u)]_vars

\* C13: two turns are in flight and each has written to its message.
TwoTurnsWriting ==
    /\ Len(turns) = 2
    /\ turns[1].pc # "done" /\ Shown(turns[1].el) # <<>>
    /\ turns[2].pc # "done" /\ Shown(turns[2].el) # <<>>

\* C14: a complete record that does not begin with data: emits nothing and
\* changes nothing: what has been emitted, and what is shown (direct) or
\* accumulated (typewriter), is what the stream without that record gives,
\* whatever the record holds and whatever stands before and after it.
UntaggedRecordIgnored ==
    \A t \in 1..Len(turns) :
        turns[t].pc = "read"
            => LET records == CompleteRecords(Received(turns[t]))
               IN  \A j \in 1..Len(records) :
                       ~startsWith(records[j], TAG)
                           => LET frags == Fragments(Without(records, j))
                              IN  /\ turns[t].emitted = frags
                                  /\ IF variant = "direct"
                                     THEN chatWindow[turns[t].el].dom = RenderAll(<<>>, frags)
                                     ELSE turns[t].fullText = Concat(frags)

\* C14: a record of another event type came first and the record after it has
\* been emitted.
ReadPastUntaggedRecord ==
    \E t \in 1..Len(turns) :
        /\ turns[t].pc = "read"
        /\ turns[t].body = RecEvent \o SEP \o RecHi \o SEP
        /\ turns[t].pos = Len(turns[t].body)
        /\ turns[t].emitted = <<TextHi>>

(***************************************************************************)
(* Properties of a turn                                                    *)
(***************************************************************************)
\* The request of activation t fails in this step.
RequestFails(t) ==
    \/ FetchReject(t)
    \/ \E rsp \in ChatResponses : ~rsp.ok /\ FetchResolve(t, rsp)
    \/ ReadFail(t)

\* C15: an activation awaits fetch once, at its start; a rejected fetch, a
\* status that is not OK and a failed read make the turn a failed one; a
\* failed turn reads no more and emits no more, and when it has finished its
\* message holds the connection-error message of its script.
NeverRetried ==
    /\ [](\A t \in 1..Len(turns) :
              turns[t].failed
                  => /\ turns[t].pc \in {"catch", "done"}
                     /\ turns[t].pc = "done"
                            => IF variant = "direct"
                               THEN chatWindow[turns[t].el].dom = parseHTML(ConnectErrorDirect)
                               ELSE Shown(turns[t].el) = ConnectErrorTypewriter)
    /\ [][\A t \in 1..Len(turns) :
              /\ turns[t].pc # "fetch" => turns'[t].pc # "fetch"
              /\ RequestFails(t) => turns'[t].failed
              /\ turns[t].failed
                     => /\ turns'[t].failed
                        /\ turns'[t].emitted = turns[t].emitted
                        /\ turns'[t].pos = turns[t].pos]_vars

\* C15: a read failed after a fragment had been emitted and the turn has
\* finished.
TurnFailedAfterFragment ==
    \E t \in 1..Len(turns) :
        turns[t].failed /\ turns[t].pc = "done" /\ turns[t].emitted # <<>>

\* The call r of typewriterEffect has resolved its promise: no timer is
\* pending and every character of a string argument has been written.
Resolved(r) ==
    /\ ~r.timer
    /\ r.text.k = "string" => r.i = Len(r.text.s)

\* C16: the finally block of an activation runs after its work: when the
\* activation has finished, a stream that did not fail has been read to its
\* end and each of its fragments is rendered (direct) or part of the revealed
\* text (typewriter), every call of typewriterEffect it made has resolved, and
\* nothing of the turn or of its message changes afterwards; the send button
\* goes from disabled to enabled only in a step that finishes an activation.
CompleteAfterProcessing ==
    /\ [](\A t \in 1..Len(turns) :
              turns[t].pc = "done"
                  => /\ \A k \in 1..Len(reveals[t]) : Resolved(reveals[t][k])
                     /\ turns[t].path = "stream"
                            => /\ turns[t].pos = Len(turns[t].body)
                               /\ turns[t].emitted = Fragments(CompleteRecords(turns[t].body))
                               /\ IF variant = "direct"
                                  THEN chatWindow[turns[t].el].dom
                                           = RenderAll(<<>>, turns[t].emitted)
                                  ELSE /\ Len(reveals[t]) = 1
                                       /\ reveals[t][1].text
                                              = JStr(Concat(turns[t].emitted)))
    /\ [][/\ \A t \in 1..Len(turns) :
                 turns[t].pc = "done"
                     => /\ turns'[t] = turns[t]
                        /\ reveals'[t] = reveals[t]
                        /\ chatWindow'[turns[t].el] = chatWindow[turns[t].el]
          /\ sendDisabled /\ ~sendDisabled'
                 => \E t \in 1..Len(turns) :
                        turns[t].pc # "done" /\ turns'[t].pc = "done"]_vars

\* C16: an activation of the typewriter script has finished after a stream
\* with a fragment, whose reveal took more than one timer.
StreamTurnComplete ==
    \E t \in 1..Len(turns) :
        /\ variant = "typewriter"
        /\ turns[t].pc = "done"
        /\ turns[t].path = "stream"
        /\ turns[t].emitted # <<>>
        /\ reveals[t] # <<>>
        /\ reveals[t][1].timers >= 2
        /\ ~sendDisabled

\* Activation p calls updateApiStatus in this step.
StatusUpdates(p) ==
    StatusFailed(p) \/ \E received \in BOOLEAN : StatusJsonSettle(p, received)

\* The level updateApiStatus gives a service in the step that ends
\* activation p: "available" when the field of the status read is the string
\* "available", the default of the service otherwise.
LevelOf(p, key, default) ==
    IF ~StatusFailed(p) /\ GetProp(StatusOf(p), key) = JStr(Available)
    THEN "available" ELSE default

\* C17: every call of updateApiStatus leaves each indicator with the base
\* classes and one level: "available" exactly when the field of its service is
\* the string "available", and otherwise "limited" for gemini and
\* "unavailable" for databricks, whatever the other field and whatever the
\* indicator showed before.
StatusMapping ==
    [][\A p \in 1..Len(polls) :
           StatusUpdates(p)
               => /\ gemini'.className
                         = BaseClasses \cup {LevelOf(p, GeminiKey, "limited")}
                  /\ databricks'.className
                         = BaseClasses \cup {LevelOf(p, DatabricksKey, "unavailable")}]_vars

\* C17: the services differ: gemini shows "available" and databricks
\* "unavailable".
IndicatorsDiffer ==
    /\ gemini.className = BaseClasses \cup {"available"}
    /\ databricks.className = BaseClasses \cup {"unavailable"}

(***************************************************************************)
(* Properties of a reply that is not an event stream                       *)
(***************************************************************************)
\* The reply field of the body activation t has parsed.
ReplyOf(t) == GetProp(JSONparse(decodeAll(turns[t].body)), ReplyKey)

\* The bot message of activation t has been given text: set as its markup by
\* the direct script, handed to typewriterEffect and written out by the
\* typewriter script.
Given(t, text) ==
    IF variant = "direct"
    THEN chatWindow[turns[t].el].dom = parseHTML(text)
    ELSE /\ Len(reveals[t]) = 1
         /\ reveals[t][1].text = JStr(text)
         /\ Resolved(reveals[t][1])

\* The error message the script makes of the body of activation t.
ErrorReplyOf(t) ==
    ErrorReply(JSONparse(decodeAll(turns[t].body)),
               IF variant = "direct" THEN UnknownReplyDirect ELSE UnknownReplyTypewriter)

\* C18 (as stated): when the body has parsed and the activation has
\* finished, a reply field that is a string, the empty string included, is
\* what the bot message has been given, and the message has been given the
\* error message only when the body has no reply field.
ReplyStringShown ==
    \A t \in 1..Len(turns) :
        turns[t].pc = "done" /\ turns[t].path = "json"
            => /\ ReplyOf(t).k = "string" => Given(t, ReplyOf(t).s)
               /\ Given(t, ErrorReplyOf(t)) => ReplyOf(t).k = "undefined"

(***************************************************************************)
(* Properties of the typewriter script's stream reader                     *)
(***************************************************************************)
\* C19: in the typewriter script, while the stream is being read the bot
\* message is empty, typewriterEffect has not been called and fullText is the
\* concatenation of the fragments emitted so far; after the stream has ended
\* typewriterEffect has been called once, with that concatenation; and after
\* a failed read it has been called once, with the connection-error message,
\* of which the bot message shows a part and nothing else.
NothingShownWhileOpen ==
    \A t \in 1..Len(turns) :
        variant = "typewriter"
            => /\ turns[t].pc = "read"
                      => /\ chatWindow[turns[t].el].dom = <<>>
                         /\ reveals[t] = <<>>
                         /\ turns[t].fullText = Concat(turns[t].emitted)
               /\ turns[t].pc \in {"reveal", "done"} /\ turns[t].path = "stream"
                      => /\ Len(reveals[t]) = 1
                         /\ reveals[t][1].text = JStr(Concat(turns[t].emitted))
               /\ turns[t].failed
                      => /\ Len(reveals[t]) = 1
                         /\ reveals[t][1].text = JStr(ConnectErrorTypewriter)
                         /\ IsPrefix(Shown(turns[t].el), ConnectErrorTypewriter)

\* C19: the typewriter script is reading a stream of which it has emitted a
\* fragment.
FragmentHeldBack ==
    \E t \in 1..Len(turns) :
        /\ variant = "typewriter"
        /\ turns[t].pc = "read"
        /\ turns[t].emitted # <<>>
        /\ chatWindow[turns[t].el].dom = <<>>

(***************************************************************************)
(* The two scripts compared                                                *)
(***************************************************************************)
\* The element after the direct script has read the whole stream bytes:
\* innerHTML += data.text for each fragment.
DirectFinal(bytes) == RenderAll(<<>>, Fragments(CompleteRecords(bytes)))

\* The element after typewriterEffect(text, element) has resolved:
\* innerHTML = '' and then innerHTML += text.charAt(i) for each i.
Typed(text) == RenderAll(parseHTML(<<>>), [i \in 1..Len(text) |-> <<text[i]>>])

\* The element after the typewriter script has read the whole stream bytes
\* and its reveal has resolved.
TypewriterFinal(bytes) == Typed(Concat(Fragments(CompleteRecords(bytes))))

\* What each script leaves in the bot message of activation t when it has
\* read a stream to its end.
FinalOfScript ==
    \A t \in 1..Len(turns) :
        turns[t].pc = "done" /\ turns[t].path = "stream"
            => chatWindow[turns[t].el].dom =
                   IF variant = "direct" THEN DirectFinal(turns[t].body)
                   ELSE TypewriterFinal(turns[t].body)

\* C20 (as stated): when an activation has read a stream to its end and has
\* finished, the bot message holds what the other script leaves in it for the
\* same stream, and the send button is enabled.
VariantsAgree ==
    \A t \in 1..Len(turns) :
        turns[t].pc = "done" /\ turns[t].path = "stream"
            => /\ chatWindow[turns[t].el].dom =
                      IF variant = "direct" THEN TypewriterFinal(turns[t].body)
                      ELSE DirectFinal(turns[t].body)
               /\ ~sendDisabled
=============================================================================
